---- MODULE Spec2Model ----
(***************************************************************************)
(* A model of the Go rules engine GoBoard (src/Go2/board.py): the padded   *)
(* one-dimensional board, the liberty-witness cache, legality checking,    *)
(* move execution with captures and ko, eye detection and copy().          *)
(*                                                                         *)
(* A GoBoard object is a record of scalar fields plus two references into  *)
(* a heap of arrays (the numpy arrays self.board and self.liberty_of), so  *)
(* that in-place array mutation and sharing between objects are explicit.  *)
(***************************************************************************)
EXTENDS Integers, Sequences, FiniteSets

VARIABLES
    boards,   \* object id -> GoBoard object (scalar fields + array references), or NoBoard
    heap,     \* array id -> numpy array contents (a function over 0..maxpoint-1), or NoArray
    op,       \* name of the method executed by the last call
    self_id,  \* object the last call was made on
    ret,      \* value returned by the last call
    line,     \* source line of the return statement that produced ret
    raised,   \* TRUE when an assert statement failed during some call
    moves,    \* history variable: per object, the points of the successful play_move calls, most recent first (at most two kept)
    ncalls    \* number of calls made so far (only counted where a specification bounds it)

vars == <<boards, heap, op, self_id, ret, line, raised, moves, ncalls>>

-----------------------------------------------------------------------------
(* board_base: colour and point encodings, board layout                    *)

EMPTY == 0
BLACK == 1
WHITE == 2
BORDER == 3
PASS == 0
NO_POINT == -1

is_black_white(color) == color = BLACK \/ color = WHITE

is_black_white_empty(color) == color = BLACK \/ color = WHITE \/ color = EMPTY

opponent(color) == WHITE + BLACK - color

board_array_size(size) == size * size + 3 * (size + 1)

coord_to_point(row, col, size) == (size + 1) * row + col

\* v bound to a local name: F applied to the value of v
With(v, F(_)) == CHOOSE y \in {F(x) : x \in {v}} : TRUE

\* where1d(a): the indices at which a boolean array is True (iterated in ascending order)
where1d(marker) == {p \in DOMAIN marker : marker[p]}

-----------------------------------------------------------------------------
(* Bounds of the model                                                     *)

\* size of the board of specification Spec
BoardSize == 3
\* play_move / is_legal calls of Spec target interior points with index <= MaxPlayPoint (and PASS)
MaxPlayPoint == 10
\* size of the boards of specification SpecCopy
CopyBoardSize == 2
\* number of calls made in a behaviour of SpecCopy
MaxCalls == 4
\* play_move / is_legal calls of SpecCopy target interior points with index <= MaxCopyPoint (and PASS)
MaxCopyPoint == 7
\* size of the boards of specification SpecEye
EyeBoardSize == 4
\* the positions of specification SpecPos have stones on points with index <= MaxDrawPoint only
MaxDrawPoint == 14
\* number of calls made on a position in a behaviour of SpecPos
MaxPosCalls == 1

BoardIds == {1, 2}
ArrayIds == 1..5
NoBoard == [size |-> 0]
NoArray == <<>>

-----------------------------------------------------------------------------
(* GoBoard: construction                                                   *)

row_start(NS, row) == row * NS + 1

\* the board array after _initialize_empty_points: BORDER everywhere except the rows' interior cells
initialize_empty_points(size) ==
    [p \in 0..(board_array_size(size) - 1) |->
        IF \E row \in 1..size : p >= row_start(size + 1, row) /\ p < row_start(size + 1, row) + size
        THEN EMPTY ELSE BORDER]

\* reset(size) with the arrays resolved: the start state of a board of the given size
reset(size) ==
    [size |-> size,
     NS |-> size + 1,
     maxpoint |-> board_array_size(size),
     ko_recapture |-> NO_POINT,
     last_move |-> NO_POINT,
     last2_move |-> NO_POINT,
     current_player |-> BLACK,
     board |-> initialize_empty_points(size),
     liberty_of |-> [p \in 0..(board_array_size(size) - 1) |-> NO_POINT]]

pt(self, row, col) == coord_to_point(row, col, self.size)

get_color(self, point) == self.board[point]

_neighbors(self, point) == <<point - 1, point + 1, point - self.NS, point + self.NS>>

_diag_neighbors(self, point) ==
    <<point - self.NS - 1, point - self.NS + 1, point + self.NS - 1, point + self.NS + 1>>

_on_board_neighbors(self, point) ==
    SelectSeq(_neighbors(self, point), LAMBDA nb : self.board[nb] # BORDER)

\* self.neighbors[point]: precomputed at construction; border cells never change afterwards
neighbors(self, point) ==
    IF self.board[point] = BORDER THEN <<>> ELSE _on_board_neighbors(self, point)

neighbors_of_color(self, point, color) ==
    SelectSeq(neighbors(self, point), LAMBDA nb : get_color(self, nb) = color)

find_neighbor_of_color(self, point, color) ==
    With(neighbors_of_color(self, point, color),
         LAMBDA nbc : IF Len(nbc) > 0 THEN nbc[1] ELSE NO_POINT)

-----------------------------------------------------------------------------
(* Connectivity: blocks and liberties                                      *)

\* the loop of connected_component without line 278: new points are marked, never pushed
RECURSIVE cc_visit_no_push(_, _, _, _)
cc_visit_no_push(marker, pointstack, nbs, i) ==
    IF i > Len(nbs) THEN [marker |-> marker, pointstack |-> pointstack]
    ELSE IF ~marker[nbs[i]]
         THEN cc_visit_no_push([marker EXCEPT ![nbs[i]] = TRUE], pointstack, nbs, i + 1)
         ELSE cc_visit_no_push(marker, pointstack, nbs, i + 1)

\* the "for nb in neighbors" loop of connected_component, from index i on
RECURSIVE cc_visit(_, _, _, _)
cc_visit(marker, pointstack, nbs, i) ==
    IF i > Len(nbs) THEN [marker |-> marker, pointstack |-> pointstack]
    ELSE IF ~marker[nbs[i]]
         THEN cc_visit([marker EXCEPT ![nbs[i]] = TRUE], Append(pointstack, nbs[i]), nbs, i + 1)
         ELSE cc_visit(marker, pointstack, nbs, i + 1)

\* the "while pointstack" loop of connected_component
RECURSIVE cc_loop(_, _, _, _)
cc_loop(self, color, marker, pointstack) ==
    IF pointstack = <<>> THEN marker
    ELSE With(cc_visit(marker, SubSeq(pointstack, 1, Len(pointstack) - 1),
                       neighbors_of_color(self, pointstack[Len(pointstack)], color), 1),
              LAMBDA v : cc_loop(self, color, v.marker, v.pointstack))

\* returns [marker, raised]
connected_component(self, point) ==
    IF ~is_black_white_empty(get_color(self, point))
    THEN [marker |-> [p \in 0..(self.maxpoint - 1) |-> p = point], raised |-> TRUE]
    ELSE [marker |-> cc_loop(self, get_color(self, point),
                             [p \in 0..(self.maxpoint - 1) |-> p = point], <<point>>),
          raised |-> FALSE]

\* returns [marker, raised]
_block_of(self, stone) ==
    IF ~is_black_white(get_color(self, stone))
    THEN [marker |-> [p \in 0..(self.maxpoint - 1) |-> FALSE], raised |-> TRUE]
    ELSE connected_component(self, stone)

_stone_has_liberty(self, stone) == find_neighbor_of_color(self, stone, EMPTY) # NO_POINT

\* the first liberty met when the block's stones are scanned in ascending order
_get_liberty(self, block) ==
    With({stone \in where1d(block) : find_neighbor_of_color(self, stone, EMPTY) # NO_POINT},
         LAMBDA withlib :
            IF withlib = {} THEN NO_POINT
            ELSE find_neighbor_of_color(self, CHOOSE s \in withlib : \A t \in withlib : s <= t, EMPTY))

\* _has_liberty without the test of line 248: the cache is written whatever readOnly is
_has_liberty_ignore_readonly(self, block, readOnly) ==
    With(_get_liberty(self, block),
         LAMBDA lib :
            IF lib = NO_POINT THEN [self |-> self, ret |-> FALSE, raised |-> FALSE]
            ELSE IF get_color(self, lib) # EMPTY THEN [self |-> self, ret |-> FALSE, raised |-> TRUE]
            ELSE [self |-> [self EXCEPT !.liberty_of =
                                [p \in DOMAIN self.liberty_of |->
                                    IF block[p] THEN lib ELSE self.liberty_of[p]]],
                  ret |-> TRUE, raised |-> FALSE])

\* returns [self, ret, raised]
_has_liberty(self, block, readOnly) ==
    With(_get_liberty(self, block),
         LAMBDA lib :
            IF lib = NO_POINT THEN [self |-> self, ret |-> FALSE, raised |-> FALSE]
            ELSE IF get_color(self, lib) # EMPTY THEN [self |-> self, ret |-> FALSE, raised |-> TRUE]
            ELSE IF ~readOnly
                 THEN [self |-> [self EXCEPT !.liberty_of =
                                     [p \in DOMAIN self.liberty_of |->
                                         IF block[p] THEN lib ELSE self.liberty_of[p]]],
                       ret |-> TRUE, raised |-> FALSE]
                 ELSE [self |-> self, ret |-> TRUE, raised |-> FALSE])

\* _fast_liberty_check without the test of line 340 that the cached point is EMPTY
_fast_liberty_check_stale(self, nb_point) ==
    IF self.liberty_of[nb_point] # NO_POINT
    THEN TRUE
    ELSE IF _stone_has_liberty(self, nb_point) THEN TRUE
    ELSE FALSE

_fast_liberty_check(self, nb_point) ==
    IF self.liberty_of[nb_point] # NO_POINT /\ get_color(self, self.liberty_of[nb_point]) = EMPTY
    THEN TRUE
    ELSE IF _stone_has_liberty(self, nb_point) THEN TRUE
    ELSE FALSE

\* _detect_capture taking any cached witness, EMPTY or not, as a liberty
_detect_capture_trust_cache(self, nb_point) ==
    IF self.liberty_of[nb_point] # NO_POINT \/ _fast_liberty_check(self, nb_point)
    THEN [self |-> self, ret |-> FALSE, raised |-> FALSE]
    ELSE With(_block_of(self, nb_point),
              LAMBDA opp_block :
                 IF opp_block.raised THEN [self |-> self, ret |-> FALSE, raised |-> TRUE]
                 ELSE With(_has_liberty(self, opp_block.marker, FALSE),
                           LAMBDA h : [self |-> h.self, ret |-> ~h.ret, raised |-> h.raised]))

\* returns [self, ret, raised]
_detect_capture(self, nb_point) ==
    IF _fast_liberty_check(self, nb_point)
    THEN [self |-> self, ret |-> FALSE, raised |-> FALSE]
    ELSE With(_block_of(self, nb_point),
              LAMBDA opp_block :
                 IF opp_block.raised THEN [self |-> self, ret |-> FALSE, raised |-> TRUE]
                 ELSE With(_has_liberty(self, opp_block.marker, FALSE),
                           LAMBDA h : [self |-> h.self, ret |-> ~h.ret, raised |-> h.raised]))

\* the loop of _detect_captures over the opponent neighbours nbs, from index i on
RECURSIVE detect_captures_loop(_, _, _)
detect_captures_loop(self, nbs, i) ==
    IF i > Len(nbs) THEN [self |-> self, ret |-> FALSE, raised |-> FALSE]
    ELSE With(_detect_capture(self, nbs[i]),
              LAMBDA d : IF d.raised \/ d.ret THEN d
                         ELSE detect_captures_loop(d.self, nbs, i + 1))

\* _detect_captures that reports no capture, whatever the neighbours
_detect_captures_none(self, point, opp_color) ==
    [self |-> self, ret |-> FALSE, raised |-> FALSE]

\* returns [self, ret, raised]
_detect_captures(self, point, opp_color) ==
    With(neighbors_of_color(self, point, opp_color),
         LAMBDA nbs : detect_captures_loop(self, nbs, 1))

\* _detect_and_process_capture without line 371: the captured points keep their cache entries
_detect_and_process_capture_keep_cache(self, nb_point) ==
    IF _fast_liberty_check(self, nb_point)
    THEN [self |-> self, single_capture |-> NO_POINT, raised |-> FALSE]
    ELSE With(_block_of(self, nb_point),
              LAMBDA opp_block :
                 IF opp_block.raised
                 THEN [self |-> self, single_capture |-> NO_POINT, raised |-> TRUE]
                 ELSE With([h |-> _has_liberty(self, opp_block.marker, FALSE),
                            captures |-> where1d(opp_block.marker)],
                           LAMBDA v :
                              IF v.h.raised \/ v.h.ret
                              THEN [self |-> v.h.self, single_capture |-> NO_POINT, raised |-> v.h.raised]
                              ELSE [self |-> [self EXCEPT
                                                !.board = [p \in DOMAIN self.board |->
                                                              IF p \in v.captures THEN EMPTY
                                                              ELSE self.board[p]]],
                                    single_capture |-> IF Cardinality(v.captures) = 1
                                                       THEN nb_point ELSE NO_POINT,
                                    raised |-> FALSE]))

\* returns [self, single_capture, raised]
_detect_and_process_capture(self, nb_point) ==
    IF _fast_liberty_check(self, nb_point)
    THEN [self |-> self, single_capture |-> NO_POINT, raised |-> FALSE]
    ELSE With(_block_of(self, nb_point),
              LAMBDA opp_block :
                 IF opp_block.raised
                 THEN [self |-> self, single_capture |-> NO_POINT, raised |-> TRUE]
                 ELSE With([h |-> _has_liberty(self, opp_block.marker, FALSE),
                            captures |-> where1d(opp_block.marker)],
                           LAMBDA v :
                              IF v.h.raised \/ v.h.ret
                              THEN [self |-> v.h.self, single_capture |-> NO_POINT, raised |-> v.h.raised]
                              ELSE [self |-> [self EXCEPT
                                                !.board = [p \in DOMAIN self.board |->
                                                              IF p \in v.captures THEN EMPTY
                                                              ELSE self.board[p]],
                                                !.liberty_of = [p \in DOMAIN self.liberty_of |->
                                                              IF p \in v.captures THEN NO_POINT
                                                              ELSE self.liberty_of[p]]],
                                    single_capture |-> IF Cardinality(v.captures) = 1
                                                       THEN nb_point ELSE NO_POINT,
                                    raised |-> FALSE]))

\* the elements of the list s
Range(s) == {s[i] : i \in DOMAIN s}

\* the loop of _liberty_point without line 309: a visited neighbour is not remembered
RECURSIVE lp_visit_forget(_, _, _, _, _)
lp_visit_forget(self, color, st, nbs, i) ==
    IF i > Len(nbs) THEN st
    ELSE IF nbs[i] \notin Range(st.met_points)
         THEN IF self.board[nbs[i]] = BORDER
              THEN [st EXCEPT !.raised = TRUE]
              ELSE IF self.board[nbs[i]] = color
                   THEN lp_visit_forget(self, color,
                            [st EXCEPT !.group_points = Append(@, nbs[i])], nbs, i + 1)
                   ELSE IF self.board[nbs[i]] = EMPTY
                        THEN lp_visit_forget(self, color,
                                 [st EXCEPT !.liberty = @ + 1, !.single_lib_point = nbs[i]],
                                 nbs, i + 1)
                        ELSE lp_visit_forget(self, color, st, nbs, i + 1)
         ELSE lp_visit_forget(self, color, st, nbs, i + 1)

\* the "for n in neighbors" loop of _liberty_point, from index i on; st holds the
\* locals group_points, liberty, single_lib_point, met_points and the failed assertion
RECURSIVE lp_visit(_, _, _, _, _)
lp_visit(self, color, st, nbs, i) ==
    IF i > Len(nbs) THEN st
    ELSE IF nbs[i] \notin Range(st.met_points)
         THEN IF self.board[nbs[i]] = BORDER
              THEN [st EXCEPT !.raised = TRUE]
              ELSE IF self.board[nbs[i]] = color
                   THEN lp_visit(self, color,
                            [st EXCEPT !.group_points = Append(@, nbs[i]),
                                       !.met_points = Append(@, nbs[i])], nbs, i + 1)
                   ELSE IF self.board[nbs[i]] = EMPTY
                        THEN lp_visit(self, color,
                                 [st EXCEPT !.liberty = @ + 1, !.single_lib_point = nbs[i],
                                            !.met_points = Append(@, nbs[i])], nbs, i + 1)
                        ELSE lp_visit(self, color,
                                 [st EXCEPT !.met_points = Append(@, nbs[i])], nbs, i + 1)
         ELSE lp_visit(self, color, st, nbs, i + 1)

\* the "while group_points" loop of _liberty_point
RECURSIVE lp_loop(_, _, _)
lp_loop(self, color, st) ==
    IF st.group_points = <<>> \/ st.raised THEN st
    ELSE lp_loop(self, color,
             lp_visit(self, color,
                      [st EXCEPT !.group_points = SubSeq(@, 1, Len(@) - 1),
                                 !.met_points = Append(@, st.group_points[Len(st.group_points)])],
                      neighbors(self, st.group_points[Len(st.group_points)]), 1))

\* returns [ret, raised, line], ret the pair (number of liberties, single liberty point)
_liberty_point(self, point, color) ==
    IF color # get_color(self, point)
    THEN [ret |-> <<0, NO_POINT>>, raised |-> TRUE, line |-> 293]
    ELSE With(lp_loop(self, color,
                      [group_points |-> <<point>>, liberty |-> 0, single_lib_point |-> NO_POINT,
                       met_points |-> <<point>>, raised |-> FALSE]),
              LAMBDA st :
                 IF st.raised THEN [ret |-> <<0, NO_POINT>>, raised |-> TRUE, line |-> 303]
                 ELSE IF st.liberty = 1
                      THEN [ret |-> <<st.liberty, st.single_lib_point>>, raised |-> FALSE, line |-> 311]
                      ELSE [ret |-> <<st.liberty, NO_POINT>>, raised |-> FALSE, line |-> 312])

\* the "for n in neighbors" loop of get_block_liberty, from index i on; st holds the
\* locals group_points, liberty, met_points and the failed assertion
RECURSIVE gbl_visit(_, _, _, _, _)
gbl_visit(self, color, st, nbs, i) ==
    IF i > Len(nbs) THEN st
    ELSE IF nbs[i] \notin Range(st.met_points)
         THEN IF self.board[nbs[i]] = BORDER
              THEN [st EXCEPT !.raised = TRUE]
              ELSE IF self.board[nbs[i]] = color
                   THEN gbl_visit(self, color,
                            [st EXCEPT !.group_points = Append(@, nbs[i]),
                                       !.met_points = Append(@, nbs[i])], nbs, i + 1)
                   ELSE IF self.board[nbs[i]] = EMPTY
                        THEN gbl_visit(self, color,
                                 [st EXCEPT !.liberty = @ + 1,
                                            !.met_points = Append(@, nbs[i])], nbs, i + 1)
                        ELSE gbl_visit(self, color,
                                 [st EXCEPT !.met_points = Append(@, nbs[i])], nbs, i + 1)
         ELSE gbl_visit(self, color, st, nbs, i + 1)

\* the "while group_points" loop of get_block_liberty
RECURSIVE gbl_loop(_, _, _)
gbl_loop(self, color, st) ==
    IF st.group_points = <<>> \/ st.raised THEN st
    ELSE gbl_loop(self, color,
             gbl_visit(self, color,
                       [st EXCEPT !.group_points = SubSeq(@, 1, Len(@) - 1),
                                  !.met_points = Append(@, st.group_points[Len(st.group_points)])],
                       neighbors(self, st.group_points[Len(st.group_points)]), 1))

\* returns [ret, raised, line], ret the pair (number of liberties, met_points)
get_block_liberty(self, point, color) ==
    IF color # get_color(self, point)
    THEN [ret |-> <<0, <<>>>>, raised |-> TRUE, line |-> 320]
    ELSE With(gbl_loop(self, color,
                       [group_points |-> <<point>>, liberty |-> 0,
                        met_points |-> <<point>>, raised |-> FALSE]),
              LAMBDA st :
                 IF st.raised THEN [ret |-> <<0, <<>>>>, raised |-> TRUE, line |-> 330]
                 ELSE [ret |-> <<st.liberty, st.met_points>>, raised |-> FALSE, line |-> 336])

-----------------------------------------------------------------------------
(* Legality checking                                                       *)

\* returns [ret, raised, line]
_is_legal_check_simple_cases(self, point, color) ==
    IF ~is_black_white(color) THEN [ret |-> FALSE, raised |-> TRUE, line |-> 94]
    ELSE IF point = PASS THEN [ret |-> TRUE, raised |-> FALSE, line |-> 96]
    ELSE IF ~(pt(self, 1, 1) <= point /\ point <= pt(self, self.size, self.size))
         THEN [ret |-> FALSE, raised |-> TRUE, line |-> 99]
    ELSE IF ~is_black_white_empty(self.board[point])
         THEN [ret |-> FALSE, raised |-> TRUE, line |-> 100]
    ELSE IF self.board[point] # EMPTY THEN [ret |-> FALSE, raised |-> FALSE, line |-> 102]
    ELSE IF point = self.ko_recapture THEN [ret |-> FALSE, raised |-> FALSE, line |-> 104]
    ELSE [ret |-> TRUE, raised |-> FALSE, line |-> 105]

\* is_legal's suicide test with line 126 moved up: the stone is removed before its block is scanned
is_legal_suicide_revert_first(placed, point, has_capture) ==
    IF ~has_capture /\ ~_stone_has_liberty(placed, point)
    THEN With([placed EXCEPT !.board[point] = EMPTY],
              LAMBDA reverted :
                 With(_block_of(reverted, point),
                      LAMBDA block :
                         IF block.raised
                         THEN [self |-> reverted, ret |-> FALSE, raised |-> TRUE, line |-> 260]
                         ELSE With(_has_liberty(reverted, block.marker, TRUE),
                                   LAMBDA h : [self |-> h.self, ret |-> h.ret,
                                               raised |-> h.raised, line |-> 127])))
    ELSE [self |-> [placed EXCEPT !.board[point] = EMPTY], ret |-> TRUE, raised |-> FALSE, line |-> 127]

\* lines 122-127 of is_legal: the suicide test on the provisionally placed stone, then the revert
is_legal_suicide(placed, point, has_capture) ==
    IF ~has_capture /\ ~_stone_has_liberty(placed, point)
    THEN With(_block_of(placed, point),
              LAMBDA block :
                 IF block.raised
                 THEN [self |-> placed, ret |-> FALSE, raised |-> TRUE, line |-> 260]
                 ELSE With(_has_liberty(placed, block.marker, TRUE),
                           LAMBDA h :
                              IF h.raised
                              THEN [self |-> h.self, ret |-> FALSE, raised |-> TRUE, line |-> 247]
                              ELSE [self |-> [h.self EXCEPT !.board[point] = EMPTY],
                                    ret |-> h.ret, raised |-> FALSE, line |-> 127]))
    ELSE [self |-> [placed EXCEPT !.board[point] = EMPTY], ret |-> TRUE, raised |-> FALSE, line |-> 127]

\* returns [self, ret, raised, line]
is_legal(self, point, color) ==
    IF point = PASS THEN [self |-> self, ret |-> TRUE, raised |-> FALSE, line |-> 112]
    ELSE With(_is_legal_check_simple_cases(self, point, color),
              LAMBDA simple :
                 IF simple.raised \/ ~simple.ret
                 THEN [self |-> self, ret |-> FALSE, raised |-> simple.raised, line |-> simple.line]
                 ELSE With(_detect_captures([self EXCEPT !.board[point] = color], point, opponent(color)),
                           LAMBDA c :
                              IF c.raised
                              THEN [self |-> c.self, ret |-> FALSE, raised |-> TRUE, line |-> 121]
                              ELSE is_legal_suicide(c.self, point, c.ret)))

\* end_of_game testing the last move only
end_of_game_last_only(self) == self.last_move = PASS

end_of_game(self) == self.last_move = PASS /\ self.last2_move = PASS

-----------------------------------------------------------------------------
(* Move execution                                                          *)

\* the "for nb in neighbors" loop of play_move, from index i on; returns [self, single_captures, raised]
RECURSIVE play_move_captures(_, _, _, _, _)
play_move_captures(self, nbs, i, opp_color, single_captures) ==
    IF i > Len(nbs) THEN [self |-> self, single_captures |-> single_captures, raised |-> FALSE]
    ELSE IF self.board[nbs[i]] = opp_color
         THEN With(_detect_and_process_capture(self, nbs[i]),
                   LAMBDA d :
                      IF d.raised
                      THEN [self |-> d.self, single_captures |-> single_captures, raised |-> TRUE]
                      ELSE play_move_captures(d.self, nbs, i + 1, opp_color,
                               IF d.single_capture # NO_POINT
                               THEN Append(single_captures, d.single_capture)
                               ELSE single_captures))
         ELSE play_move_captures(self, nbs, i + 1, opp_color, single_captures)

\* play_move's last lines without lines 409-410: the ko point is never set
play_move_finish_no_ko(self, point, color, in_enemy_eye, single_captures) ==
    [self |-> [self EXCEPT
                 !.ko_recapture = NO_POINT,
                 !.current_player = opponent(color),
                 !.last2_move = self.last_move,
                 !.last_move = point],
     ret |-> TRUE, raised |-> FALSE, line |-> 414]

\* lines 408-414 of play_move: ko update, turn advance, history shift
play_move_finish(self, point, color, in_enemy_eye, single_captures) ==
    [self |-> [self EXCEPT
                 !.ko_recapture = IF in_enemy_eye /\ Len(single_captures) = 1
                                  THEN single_captures[1] ELSE NO_POINT,
                 !.current_player = opponent(color),
                 !.last2_move = self.last_move,
                 !.last_move = point],
     ret |-> TRUE, raised |-> FALSE, line |-> 414]

\* play_move's suicide test without line 406: the suicide stone stays on the board
play_move_suicide_no_revert(self, point) ==
    IF ~_stone_has_liberty(self, point)
    THEN With(_block_of(self, point),
              LAMBDA block :
                 IF block.raised
                 THEN [self |-> self, suicide |-> FALSE, raised |-> TRUE, line |-> 260]
                 ELSE With(_has_liberty(self, block.marker, FALSE),
                           LAMBDA h :
                              IF h.raised
                              THEN [self |-> h.self, suicide |-> FALSE, raised |-> TRUE, line |-> 247]
                              ELSE IF ~h.ret
                                   THEN [self |-> h.self, suicide |-> TRUE, raised |-> FALSE, line |-> 407]
                                   ELSE [self |-> h.self, suicide |-> FALSE, raised |-> FALSE, line |-> 405]))
    ELSE [self |-> self, suicide |-> FALSE, raised |-> FALSE, line |-> 402]

\* lines 402-407 of play_move: the suicide test after the captures; returns [self, suicide, raised, line]
play_move_suicide(self, point) ==
    IF ~_stone_has_liberty(self, point)
    THEN With(_block_of(self, point),
              LAMBDA block :
                 IF block.raised
                 THEN [self |-> self, suicide |-> FALSE, raised |-> TRUE, line |-> 260]
                 ELSE With(_has_liberty(self, block.marker, FALSE),
                           LAMBDA h :
                              IF h.raised
                              THEN [self |-> h.self, suicide |-> FALSE, raised |-> TRUE, line |-> 247]
                              ELSE IF ~h.ret
                                   THEN [self |-> [h.self EXCEPT !.board[point] = EMPTY],
                                         suicide |-> TRUE, raised |-> FALSE, line |-> 407]
                                   ELSE [self |-> h.self, suicide |-> FALSE, raised |-> FALSE, line |-> 405]))
    ELSE [self |-> self, suicide |-> FALSE, raised |-> FALSE, line |-> 402]

_is_surrounded(self, point, color) ==
    With(neighbors(self, point), LAMBDA nbs : \A i \in 1..Len(nbs) : self.board[nbs[i]] = color)

\* play_move's PASS branch without line 385: the ko point survives a pass
play_move_pass_keep_ko(self, point, color) ==
    [self |-> [self EXCEPT !.current_player = opponent(color),
                           !.last2_move = self.last_move,
                           !.last_move = point],
     ret |-> TRUE, raised |-> FALSE, line |-> 389]

\* lines 385-389 of play_move: the PASS branch
play_move_pass(self, point, color) ==
    [self |-> [self EXCEPT !.ko_recapture = NO_POINT,
                           !.current_player = opponent(color),
                           !.last2_move = self.last_move,
                           !.last_move = point],
     ret |-> TRUE, raised |-> FALSE, line |-> 389]

\* returns [self, ret, raised, line]
play_move(self, point, color) ==
    With(_is_legal_check_simple_cases(self, point, color),
         LAMBDA simple :
            IF simple.raised \/ ~simple.ret
            THEN [self |-> self, ret |-> FALSE, raised |-> simple.raised, line |-> simple.line]
            ELSE IF point = PASS
                 THEN play_move_pass(self, point, color)
                 ELSE With(play_move_captures([self EXCEPT !.board[point] = color],
                                              neighbors(self, point), 1, opponent(color), <<>>),
                           LAMBDA c :
                              IF c.raised
                              THEN [self |-> c.self, ret |-> FALSE, raised |-> TRUE, line |-> 399]
                              ELSE With(play_move_suicide(c.self, point),
                                        LAMBDA s :
                                           IF s.raised \/ s.suicide
                                           THEN [self |-> s.self, ret |-> FALSE,
                                                 raised |-> s.raised, line |-> s.line]
                                           ELSE play_move_finish(s.self, point, color,
                                                    _is_surrounded(self, point, opponent(color)),
                                                    c.single_captures))))

-----------------------------------------------------------------------------
(* Eye detection                                                           *)

\* the loop of is_eye over the diagonal neighbours ds, from index i on; returns [false_count, at_edge]
RECURSIVE is_eye_diagonals(_, _, _, _, _, _)
is_eye_diagonals(self, ds, i, opp_color, false_count, at_edge) ==
    IF i > Len(ds) THEN [false_count |-> false_count, at_edge |-> at_edge]
    ELSE IF self.board[ds[i]] = BORDER
         THEN is_eye_diagonals(self, ds, i + 1, opp_color, false_count, 1)
         ELSE IF self.board[ds[i]] = opp_color
              THEN is_eye_diagonals(self, ds, i + 1, opp_color, false_count + 1, at_edge)
              ELSE is_eye_diagonals(self, ds, i + 1, opp_color, false_count, at_edge)

\* is_eye with the interior threshold everywhere: at_edge is ignored
is_eye_no_edge(self, point, color) ==
    IF ~_is_surrounded(self, point, color) THEN FALSE
    ELSE With(is_eye_diagonals(self, _diag_neighbors(self, point), 1, opponent(color), 0, 0),
              LAMBDA d : d.false_count <= 1)

is_eye(self, point, color) ==
    IF ~_is_surrounded(self, point, color) THEN FALSE
    ELSE With(is_eye_diagonals(self, _diag_neighbors(self, point), 1, opponent(color), 0, 0),
              LAMBDA d : d.false_count <= 1 - d.at_edge)

-----------------------------------------------------------------------------
(* Objects and arrays                                                      *)

\* the lowest unused array id
alloc(h) == CHOOSE a \in ArrayIds : h[a] = NoArray /\ \A x \in ArrayIds : h[x] = NoArray => a <= x

\* GoBoard(size): a new object whose board and liberty_of are two newly allocated arrays;
\* returns [obj, heap]
GoBoard(h, size) ==
    With(reset(size),
         LAMBDA r :
            With([h EXCEPT ![alloc(h)] = r.board],
                 LAMBDA h1 : [obj |-> [r EXCEPT !.board = alloc(h), !.liberty_of = alloc(h1)],
                              heap |-> [h1 EXCEPT ![alloc(h1)] = r.liberty_of]]))

\* copy() with b.board = self.board: the copy shares the original's board array
copy_shared_board(h, self_obj) ==
    With(GoBoard(h, self_obj.size),
         LAMBDA g : [obj |-> [g.obj EXCEPT !.ko_recapture = self_obj.ko_recapture,
                                           !.last_move = self_obj.last_move,
                                           !.last2_move = self_obj.last2_move,
                                           !.current_player = self_obj.current_player,
                                           !.board = self_obj.board],
                     heap |-> [g.heap EXCEPT ![g.obj.board] = NoArray]])

\* copy(): returns [obj, heap]; the array the constructor made for b.board is dropped
\* when b.board is rebound to the np.copy of self.board
copy(h, self_obj) ==
    With(GoBoard(h, self_obj.size),
         LAMBDA g : [obj |-> [g.obj EXCEPT !.ko_recapture = self_obj.ko_recapture,
                                           !.last_move = self_obj.last_move,
                                           !.last2_move = self_obj.last2_move,
                                           !.current_player = self_obj.current_player,
                                           !.board = alloc(g.heap)],
                     heap |-> [g.heap EXCEPT ![alloc(g.heap)] = h[self_obj.board],
                                             ![g.obj.board] = NoArray]])

\* the object id with its array references resolved: what the methods read as self
View(id) == [boards[id] EXCEPT !.board = heap[boards[id].board],
                               !.liberty_of = heap[boards[id].liberty_of]]

\* the heap after the method left self as new: arrays are mutated in place
StoreArrays(id, new) ==
    [a \in ArrayIds |->
        IF a = boards[id].liberty_of THEN new.liberty_of
        ELSE IF a = boards[id].board THEN new.board
        ELSE heap[a]]

\* the object after the method left self as new: scalar fields assigned, references kept
StoreFields(id, new) ==
    [new EXCEPT !.board = boards[id].board, !.liberty_of = boards[id].liberty_of]

Colors == {BLACK, WHITE}

\* the points of the board (not BORDER)
OnBoard(self) == {p \in DOMAIN self.board : self.board[p] # BORDER}

-----------------------------------------------------------------------------
(* Operations                                                              *)

\* the state after board = GoBoard(size), with the cell grid as given
InitBoards(size, grid) ==
    \E g \in {GoBoard([a \in ArrayIds |-> NoArray], size)} :
       /\ boards = [id \in BoardIds |-> IF id = 1 THEN g.obj ELSE NoBoard]
       /\ heap = [g.heap EXCEPT ![g.obj.board] = grid]
       /\ op = "GoBoard"
       /\ self_id = 1
       /\ ret = TRUE
       /\ line = 49
       /\ raised = FALSE
       /\ moves = [id \in BoardIds |-> <<>>]
       /\ ncalls = 0

PlayMove(id, point, color) ==
    /\ boards[id] # NoBoard
    /\ \E r \in {play_move(View(id), point, color)} :
          /\ boards' = [boards EXCEPT ![id] = StoreFields(id, r.self)]
          /\ heap' = StoreArrays(id, r.self)
          /\ op' = "play_move"
          /\ self_id' = id
          /\ ret' = r.ret
          /\ line' = r.line
          /\ raised' = (raised \/ r.raised)
          /\ moves' = IF r.ret /\ ~r.raised
                      THEN [moves EXCEPT ![id] = SubSeq(<<point>> \o moves[id], 1,
                                                        IF Len(moves[id]) = 0 THEN 1 ELSE 2)]
                      ELSE moves

IsLegal(id, point, color) ==
    /\ boards[id] # NoBoard
    /\ \E r \in {is_legal(View(id), point, color)} :
          /\ boards' = [boards EXCEPT ![id] = StoreFields(id, r.self)]
          /\ heap' = StoreArrays(id, r.self)
          /\ op' = "is_legal"
          /\ self_id' = id
          /\ ret' = r.ret
          /\ line' = r.line
          /\ raised' = (raised \/ r.raised)
          /\ UNCHANGED moves

EndOfGame(id) ==
    /\ boards[id] # NoBoard
    /\ op' = "end_of_game"
    /\ self_id' = id
    /\ ret' = end_of_game(View(id))
    /\ line' = 130
    /\ UNCHANGED <<boards, heap, raised, moves>>

IsEye(id, point, color) ==
    /\ boards[id] # NoBoard
    /\ op' = "is_eye"
    /\ self_id' = id
    /\ ret' = is_eye(View(id), point, color)
    /\ line' = IF _is_surrounded(View(id), point, color) THEN 207 ELSE 197
    /\ UNCHANGED <<boards, heap, raised, moves>>

ConnectedComponent(id, point) ==
    /\ boards[id] # NoBoard
    /\ \E r \in {connected_component(View(id), point)} :
          /\ op' = "connected_component"
          /\ self_id' = id
          /\ ret' = r.marker
          /\ line' = 279
          /\ raised' = (raised \/ r.raised)
    /\ UNCHANGED <<boards, heap, moves>>

LibertyPoint(id, point, color) ==
    /\ boards[id] # NoBoard
    /\ \E r \in {_liberty_point(View(id), point, color)} :
          /\ op' = "_liberty_point"
          /\ self_id' = id
          /\ ret' = r.ret
          /\ line' = r.line
          /\ raised' = (raised \/ r.raised)
    /\ UNCHANGED <<boards, heap, moves>>

GetBlockLiberty(id, point, color) ==
    /\ boards[id] # NoBoard
    /\ \E r \in {get_block_liberty(View(id), point, color)} :
          /\ op' = "get_block_liberty"
          /\ self_id' = id
          /\ ret' = r.ret
          /\ line' = r.line
          /\ raised' = (raised \/ r.raised)
    /\ UNCHANGED <<boards, heap, moves>>

Copy ==
    /\ boards[1] # NoBoard
    /\ boards[2] = NoBoard
    /\ \E c \in {copy(heap, boards[1])} :
          /\ boards' = [boards EXCEPT ![2] = c.obj]
          /\ heap' = c.heap
    /\ op' = "copy"
    /\ self_id' = 1
    /\ ret' = TRUE
    /\ line' = 78
    /\ moves' = [moves EXCEPT ![2] = moves[1]]
    /\ UNCHANGED raised

-----------------------------------------------------------------------------
(* Spec: one board of size BoardSize, any sequence of play_move, is_legal  *)
(* and end_of_game calls with either colour                                *)

Init == InitBoards(BoardSize, reset(BoardSize).board)

PlayPoints == {p \in OnBoard(reset(BoardSize)) : p <= MaxPlayPoint} \cup {PASS}

Play == \E point \in PlayPoints, color \in Colors : PlayMove(1, point, color) /\ UNCHANGED ncalls

Legal == \E point \in PlayPoints, color \in Colors : IsLegal(1, point, color) /\ UNCHANGED ncalls

GameOver == EndOfGame(1) /\ UNCHANGED ncalls

Next == Play \/ Legal \/ GameOver

Spec == Init /\ [][Next]_vars

-----------------------------------------------------------------------------
(* Reference notions of the rules, stated on the cell grid alone           *)

\* the on-board points orthogonally adjacent to the on-board point p
Adjacent(self, p) ==
    {q \in {p - 1, p + 1, p - self.NS, p + self.NS} : self.board[q] # BORDER}

\* the on-board points diagonally adjacent to the on-board point p
Diagonal(self, p) ==
    {q \in {p - self.NS - 1, p - self.NS + 1, p + self.NS - 1, p + self.NS + 1} :
        self.board[q] # BORDER}

RECURSIVE Grow(_, _)
Grow(self, S) ==
    With(S \cup {q \in UNION {Adjacent(self, s) : s \in S} :
                    \E s \in S : self.board[q] = self.board[s]},
         LAMBDA T : IF T = S THEN S ELSE Grow(self, T))

\* the block of p: the maximal connected set of points with p's cell state
Block(self, p) == Grow(self, {p})

\* the liberties of p's block
Liberties(self, p) ==
    {q \in UNION {Adjacent(self, s) : s \in Block(self, p)} : self.board[q] = EMPTY}

Stones(self) == {p \in OnBoard(self) : self.board[p] # EMPTY}

\* every block on the board has a liberty
NoDeadStones(self) == \A p \in Stones(self) : Liberties(self, p) # {}

-----------------------------------------------------------------------------
(* SpecCopy: a board of size CopyBoardSize, copied once; play_move and     *)
(* is_legal calls go to the original and to the copy, MaxCalls in all      *)

InitCopy == InitBoards(CopyBoardSize, reset(CopyBoardSize).board)

CopyPoints == {p \in OnBoard(reset(CopyBoardSize)) : p <= MaxCopyPoint} \cup {PASS}

Counted == ncalls < MaxCalls /\ ncalls' = ncalls + 1

PlayOn == Counted /\ \E id \in BoardIds, point \in CopyPoints, color \in Colors :
                         PlayMove(id, point, color)

LegalOn == Counted /\ \E id \in BoardIds, point \in CopyPoints, color \in Colors :
                          IsLegal(id, point, color)

TakeCopy == Counted /\ Copy

NextCopy == PlayOn \/ LegalOn \/ TakeCopy

SpecCopy == InitCopy /\ [][NextCopy]_vars

-----------------------------------------------------------------------------
(* SpecEye: is_eye applied to boards of size EyeBoardSize. is_eye reads    *)
(* only the cell grid, so the grid is drawn: stones on and around a        *)
(* corner, an edge or an interior point, every block with a liberty.       *)

EyeEmpty == reset(EyeBoardSize)

\* a corner, an edge and an interior point
EyePoints == {pt(EyeEmpty, 1, 1), pt(EyeEmpty, 1, 2), pt(EyeEmpty, 2, 2)}

\* the interior eye point with its orthogonal and diagonal neighbours, which
\* include the corner and the edge eye points and theirs
EyeWindow == {pt(EyeEmpty, 2, 2)} \cup Adjacent(EyeEmpty, pt(EyeEmpty, 2, 2))
                                  \cup Diagonal(EyeEmpty, pt(EyeEmpty, 2, 2))

InitEye ==
    \E f \in [EyeWindow -> {EMPTY, BLACK, WHITE}] :
        LET grid == [p \in DOMAIN EyeEmpty.board |-> IF p \in EyeWindow THEN f[p] ELSE EyeEmpty.board[p]]
        IN /\ NoDeadStones([EyeEmpty EXCEPT !.board = grid])
           /\ InitBoards(EyeBoardSize, grid)

Eye == \E point \in EyePoints, color \in Colors : IsEye(1, point, color) /\ UNCHANGED ncalls

NextEye == Eye

SpecEye == InitEye /\ [][NextEye]_vars

-----------------------------------------------------------------------------
(* SpecPos: the positions of a board of size BoardSize, MaxPosCalls calls  *)
(* made on each. A position is what copy() returns after the stones were   *)
(* placed one by one and both players passed: stones on the points up to   *)
(* MaxDrawPoint, every block with a liberty, no ko point, an empty cache.  *)
(* (Placing the stones of such a position in any order never captures.)    *)

PosEmpty == reset(BoardSize)

DrawPoints == {p \in OnBoard(PosEmpty) : p <= MaxDrawPoint}

InitPos ==
    \E f \in [DrawPoints -> {EMPTY, BLACK, WHITE}] :
       \E grid \in {[p \in DOMAIN PosEmpty.board |->
                        IF p \in DrawPoints THEN f[p] ELSE PosEmpty.board[p]]} :
          /\ NoDeadStones([PosEmpty EXCEPT !.board = grid])
          /\ \E g \in {GoBoard([a \in ArrayIds |-> NoArray], BoardSize)} :
                /\ boards = [id \in BoardIds |->
                                IF id = 1
                                THEN [g.obj EXCEPT !.last_move = PASS, !.last2_move = PASS]
                                ELSE NoBoard]
                /\ heap = [g.heap EXCEPT ![g.obj.board] = grid]
          /\ op = "copy"
          /\ self_id = 1
          /\ ret = TRUE
          /\ line = 78
          /\ raised = FALSE
          /\ moves = [id \in BoardIds |-> IF id = 1 THEN <<PASS, PASS>> ELSE <<>>]
          /\ ncalls = 0

PosPoints == OnBoard(PosEmpty) \cup {PASS}

PosCounted == ncalls < MaxPosCalls /\ ncalls' = ncalls + 1

PlayPos == PosCounted /\ \E point \in PosPoints, color \in Colors : PlayMove(1, point, color)

LegalPos == PosCounted /\ \E point \in PosPoints, color \in Colors : IsLegal(1, point, color)

ComponentPos == PosCounted /\ \E point \in OnBoard(PosEmpty) : ConnectedComponent(1, point)

LibertyPos == PosCounted /\ \E point \in OnBoard(PosEmpty), color \in Colors :
                                LibertyPoint(1, point, color)

BlockLibertyPos == PosCounted /\ \E point \in OnBoard(PosEmpty), color \in Colors :
                                     GetBlockLiberty(1, point, color)

NextPos == PlayPos \/ LegalPos \/ ComponentPos \/ LibertyPos \/ BlockLibertyPos

SpecPos == InitPos /\ [][NextPos]_vars

-----------------------------------------------------------------------------
(* SpecSmall: one board of size CopyBoardSize, any sequence of play_move   *)
(* and is_legal calls with either colour on any of its points or PASS.     *)
(* Every point can be filled, so blocks of several stones lose their last  *)
(* liberty and cached witnesses are occupied and emptied again.            *)

SmallPoints == OnBoard(reset(CopyBoardSize)) \cup {PASS}

PlaySmall == \E point \in SmallPoints, color \in Colors :
                 PlayMove(1, point, color) /\ UNCHANGED ncalls

LegalSmall == \E point \in SmallPoints, color \in Colors :
                  IsLegal(1, point, color) /\ UNCHANGED ncalls

NextSmall == PlaySmall \/ LegalSmall

SpecSmall == InitCopy /\ [][NextSmall]_vars

-----------------------------------------------------------------------------
(* Properties of play_move and is_legal (Spec)                             *)

\* the board of Spec as the methods see it
Board == View(1)

\* C1: a play_move call that returns False leaves the cell grid, the liberty-witness
\* cache, the ko state and the move history as they were before the call
C1_RejectedMoveChangesNothing ==
    [][(op' = "play_move" /\ ret' = FALSE) =>
          /\ Board'.board = Board.board
          /\ Board'.liberty_of = Board.liberty_of
          /\ Board'.ko_recapture = Board.ko_recapture
          /\ Board'.last_move = Board.last_move
          /\ Board'.last2_move = Board.last2_move]_vars

\* C2: an is_legal call, whatever it returns, leaves the cell grid, the ko state, the
\* move history, the turn and the liberty-witness cache as they were before the call
C2_IsLegalChangesNothing ==
    [][op' = "is_legal" => Board' = Board]_vars

\* the points captured by the step: stones before, EMPTY after
Captured == {q \in Stones(Board) : Board'.board[q] = EMPTY}

\* C3: after a successful play_move(p, A) into a point fully surrounded by B that
\* captured exactly one stone, at q, play_move(q, B) and is_legal(q, B) return False;
\* and a successful play_move made while q is the ko point leaves q no longer
\* rejected for being the ko point
C3_KoRoundTrip ==
    [][(op' = "play_move" /\ ret' = TRUE) =>
          /\ \A q \in OnBoard(Board) :
                LET p == Board'.last_move
                    A == opponent(Board'.current_player)
                    B == Board'.current_player
                IN (/\ p # PASS
                    /\ \A n \in Adjacent(Board, p) : Board.board[n] = B
                    /\ Captured = {q})
                   => /\ play_move(Board', q, B).ret = FALSE
                      /\ is_legal(Board', q, B).ret = FALSE
          /\ \A q \in OnBoard(Board), c \in Colors :
                Board.ko_recapture = q
                   => /\ Board'.ko_recapture # q
                      /\ play_move(Board', q, c).line # 104
                      /\ is_legal(Board', q, c).line # 104]_vars

\* C3 witness: a play_move on the ko point has just been rejected for being the ko point
C3_Witness == op = "play_move" /\ ret = FALSE /\ line = 104 /\ Board.ko_recapture # NO_POINT

\* placing color on the EMPTY point p leaves p's block without a liberty and every
\* adjacent opponent block with one
IsSuicide(self, p, color) ==
    LET placed == [self EXCEPT !.board[p] = color]
    IN /\ self.board[p] = EMPTY
       /\ Liberties(placed, p) = {}
       /\ \A q \in Adjacent(self, p) :
             self.board[q] = opponent(color) => Liberties(placed, q) # {}

\* what a rejected call must leave alone besides the cache
SameGame(a, b) ==
    /\ a.board = b.board
    /\ a.ko_recapture = b.ko_recapture
    /\ a.last_move = b.last_move
    /\ a.last2_move = b.last2_move
    /\ a.current_player = b.current_player

\* C4: for an EMPTY point that is not the ko point, where placing the colour would be
\* suicide, play_move and is_legal return False and the cell grid, ko state, move
\* history and turn are afterwards as before
C4_SuicideRejected ==
    \A p \in OnBoard(Board), c \in Colors :
        (IsSuicide(Board, p, c) /\ p # Board.ko_recapture)
           => /\ play_move(Board, p, c).ret = FALSE
              /\ is_legal(Board, p, c).ret = FALSE
              /\ SameGame(play_move(Board, p, c).self, Board)
              /\ SameGame(is_legal(Board, p, c).self, Board)

\* C4 witness: a play_move has just been rejected as suicide
C4_Witness == op = "play_move" /\ ret = FALSE /\ line = 407

\* the stones of the opponent blocks adjacent to p whose sole liberty is p
SoleLibertyBlocks(self, p, color) ==
    UNION {Block(self, q) : q \in {n \in Adjacent(self, p) :
                                      self.board[n] = opponent(color) /\ Liberties(self, n) = {p}}}

\* C5: when play_move places a stone on the sole liberty of an adjacent opponent
\* block, every point of that block is EMPTY afterwards with liberty_of NO_POINT, and
\* no stone outside such blocks is removed
C5_CaptureCorrect ==
    \A p \in OnBoard(Board), c \in Colors :
        (/\ Board.board[p] = EMPTY
         /\ p # Board.ko_recapture
         /\ SoleLibertyBlocks(Board, p, c) # {})
           => LET r == play_move(Board, p, c)
              IN /\ r.ret = TRUE
                 /\ \A s \in SoleLibertyBlocks(Board, p, c) :
                       r.self.board[s] = EMPTY /\ r.self.liberty_of[s] = NO_POINT
                 /\ \A s \in Stones(Board) :
                       r.self.board[s] = EMPTY => s \in SoleLibertyBlocks(Board, p, c)

\* C5 witness: the last play_move captured a block (a single stone, in a ko shape) by
\* filling its sole liberty
C5_Witness ==
    /\ op = "play_move" /\ ret = TRUE
    /\ Board.ko_recapture # NO_POINT
    /\ Board.board[Board.ko_recapture] = EMPTY
    /\ Board.liberty_of[Board.ko_recapture] = NO_POINT

\* C6: end_of_game() is True exactly when the two most recent successful moves were
\* both PASS; rejected play_move calls and is_legal calls are not moves
C6_DoublePass ==
    /\ end_of_game(Board) <=> (Len(moves[1]) = 2 /\ moves[1][1] = PASS /\ moves[1][2] = PASS)
    /\ op = "end_of_game" => (ret <=> (Len(moves[1]) = 2 /\ moves[1][1] = PASS /\ moves[1][2] = PASS))

\* C6 witness: end_of_game() has just returned True
C6_Witness == op = "end_of_game" /\ ret = TRUE

-----------------------------------------------------------------------------
(* Properties of is_eye                                                    *)

\* C7: is_eye(point, color) is False unless point is EMPTY and every orthogonal
\* on-board neighbour of point holds color
C7_EyeIsEmptyAndSurrounded ==
    \A p \in OnBoard(Board), c \in Colors :
        is_eye(Board, p, c)
           => /\ Board.board[p] = EMPTY
              /\ \A n \in Adjacent(Board, p) : Board.board[n] = c

\* the number of diagonal neighbours of p holding the opponent's colour
OpponentDiagonals(self, p, color) ==
    Cardinality({d \in Diagonal(self, p) : self.board[d] = opponent(color)})

\* C8: for an EMPTY point whose orthogonal on-board neighbours all hold color, is_eye
\* is True exactly when some diagonal position is off-board and no diagonal neighbour
\* holds the opponent's colour, or all four diagonal positions are on-board and at
\* most one diagonal neighbour holds the opponent's colour
C8_EyeDiagonalThresholds ==
    \A p \in OnBoard(Board), c \in Colors :
        (Board.board[p] = EMPTY /\ \A n \in Adjacent(Board, p) : Board.board[n] = c)
           => (is_eye(Board, p, c) <=>
                  \/ Cardinality(Diagonal(Board, p)) < 4 /\ OpponentDiagonals(Board, p, c) = 0
                  \/ Cardinality(Diagonal(Board, p)) = 4 /\ OpponentDiagonals(Board, p, c) <= 1)

\* C8 witness: is_eye has just returned False for the EMPTY interior point whose four
\* neighbours are BLACK, because two or more of its diagonal neighbours are WHITE
\* (no other eye point passes the surrounded test with a False result on this board)
C8_Witness ==
    LET p == pt(Board, 2, 2)
    IN /\ op = "is_eye" /\ ret = FALSE /\ line = 207
       /\ Board.board[p] = EMPTY
       /\ \A n \in Adjacent(Board, p) : Board.board[n] = BLACK
       /\ Cardinality(Diagonal(Board, p)) = 4
       /\ OpponentDiagonals(Board, p, BLACK) >= 2
       /\ Board.board[pt(Board, 1, 1)] = EMPTY

-----------------------------------------------------------------------------
(* Properties of copy() (SpecCopy)                                         *)

\* C9: the copy's cell grid, ko state, move history and turn equal the original's when
\* copy() is called, and a play_move or is_legal call on one of the two objects
\* leaves the other's cell grid, liberty-witness cache, ko state, move history and
\* turn as they were
C9_CopyIsIndependent ==
    [][/\ op' = "copy" => (SameGame(View(2)', View(1)) /\ View(1)' = View(1))
       /\ \A id \in BoardIds :
             (op' \in {"play_move", "is_legal"} /\ self_id' # id /\ boards[id] # NoBoard)
                => View(id)' = View(id)]_vars

\* C9 witness: a play_move on the copy has succeeded, the copy's grid and cache now
\* differ from the original's, and the original has stones of its own
C9_Witness ==
    /\ boards[2] # NoBoard
    /\ op = "play_move" /\ self_id = 2 /\ ret = TRUE
    /\ View(2).board # View(1).board
    /\ View(2).liberty_of # View(1).liberty_of
    /\ Stones(View(1)) # {}

-----------------------------------------------------------------------------
(* Rule violations are return values                                       *)

\* C10: no assert statement fails in any call, play_move and is_legal return a
\* boolean for every interior point (or PASS) and colour, and an occupied target,
\* the ko point and a suicide all give False
C10_RejectionsAreValues ==
    /\ raised = FALSE
    /\ ret \in BOOLEAN
    /\ \A p \in OnBoard(Board) \cup {PASS}, c \in Colors :
          LET pm == play_move(Board, p, c)
              il == is_legal(Board, p, c)
          IN /\ ~pm.raised /\ ~il.raised
             /\ pm.ret \in BOOLEAN /\ il.ret \in BOOLEAN
             /\ (p # PASS /\ (Board.board[p] # EMPTY \/ p = Board.ko_recapture
                              \/ IsSuicide(Board, p, c)))
                   => (pm.ret = FALSE /\ il.ret = FALSE)

\* C10 witness: is_legal has just rejected a suicide, after scanning the block of the
\* provisionally placed stone
C10_Witness == op = "is_legal" /\ ret = FALSE /\ line = 127 /\ ~raised

-----------------------------------------------------------------------------
(* Invariants of the ko state and of the liberty-witness cache             *)

\* C11: ko_recapture differs from NO_POINT after a successful play_move only if that
\* move placed a stone on a point whose on-board neighbours all held the opponent's
\* colour and captured exactly one stone in total; every other step leaves
\* ko_recapture as it was
C11_KoInvariant ==
    [][/\ (op' = "play_move" /\ ret' = TRUE /\ Board'.ko_recapture # NO_POINT)
             => /\ Board'.last_move # PASS
                /\ \A n \in Adjacent(Board, Board'.last_move) :
                      Board.board[n] = Board'.current_player
                /\ Cardinality(Captured) = 1
       /\ ~(op' = "play_move" /\ ret' = TRUE)
             => Board'.ko_recapture = Board.ko_recapture]_vars

\* C12: for every point p, liberty_of[p] is NO_POINT or a point whose cell is EMPTY
C12_WitnessIsEmpty ==
    \A p \in DOMAIN Board.liberty_of :
        Board.liberty_of[p] = NO_POINT \/ Board.board[Board.liberty_of[p]] = EMPTY

-----------------------------------------------------------------------------
(* PASS, and the order of captures and suicide                             *)

\* C13: in every reachable state and for either colour c, is_legal(PASS, c) is True, and
\* play_move(PASS, c) returns True, sets ko_recapture to NO_POINT, current_player to
\* opponent(c), last2_move to the previous last_move and last_move to PASS, and
\* leaves the cell grid and the liberty-witness cache unchanged
C13_PassAccepted ==
    /\ \A c \in Colors :
          /\ is_legal(Board, PASS, c).ret = TRUE
          /\ play_move(Board, PASS, c).ret = TRUE
          /\ play_move(Board, PASS, c).self =
                [Board EXCEPT !.ko_recapture = NO_POINT,
                              !.current_player = opponent(c),
                              !.last2_move = Board.last_move,
                              !.last_move = PASS]
    /\ (op = "play_move" /\ line = 389)
          => (ret = TRUE /\ Board.ko_recapture = NO_POINT /\ Board.last_move = PASS)

\* C13 witness: a PASS has just been accepted on a board with stones after the
\* previous successful move was a PASS too
C13_Witness ==
    /\ op = "play_move" /\ ret = TRUE /\ line = 389
    /\ Board.last2_move = PASS
    /\ Stones(Board) # {}

\* the stones of the opponent blocks adjacent to p that have no liberty once color
\* stands on the EMPTY point p
DeadOpponents(self, p, color) ==
    UNION {Block([self EXCEPT !.board[p] = color], q) :
              q \in {n \in Adjacent(self, p) :
                        /\ self.board[n] = opponent(color)
                        /\ Liberties([self EXCEPT !.board[p] = color], n) = {}}}

\* the EMPTY point p has no EMPTY neighbour, and the block color would form on p
\* has no liberty while the opponent's stones are all still on the board
NoLibertyBeforeCaptures(self, p, color) ==
    /\ self.board[p] = EMPTY
    /\ \A n \in Adjacent(self, p) : self.board[n] # EMPTY
    /\ Liberties([self EXCEPT !.board[p] = color], p) = {}

\* C14: for an EMPTY point p that is not the ko point and a colour c, if placing c on p
\* leaves an adjacent opponent block without a liberty, is_legal(p, c) is True and
\* play_move(p, c) returns True with c on p and those blocks removed, whether or not
\* the placed stone's block had a liberty before the captures were removed
C14_CapturesBeforeSuicide ==
    \A p \in OnBoard(Board), c \in Colors :
        (/\ Board.board[p] = EMPTY
         /\ p # Board.ko_recapture
         /\ DeadOpponents(Board, p, c) # {})
           => /\ is_legal(Board, p, c).ret = TRUE
              /\ play_move(Board, p, c).ret = TRUE
              /\ play_move(Board, p, c).self.board[p] = c
              /\ \A s \in DeadOpponents(Board, p, c) :
                    play_move(Board, p, c).self.board[s] = EMPTY

\* C14 witness: is_legal has just returned True after the capture test, on a board
\* where some capturing placement has no liberty of its own before the captures
C14_Witness ==
    /\ op = "is_legal" /\ ret = TRUE /\ line = 127
    /\ \E p \in OnBoard(Board), c \in Colors :
          /\ p # Board.ko_recapture
          /\ NoLibertyBeforeCaptures(Board, p, c)
          /\ DeadOpponents(Board, p, c) # {}
          /\ is_legal(Board, p, c).ret = TRUE

-----------------------------------------------------------------------------
(* Properties of the block traversals (SpecPos)                            *)

\* C15: for every point of the board, EMPTY ones included, connected_component
\* returns without a failed assertion a marker that is True exactly on the maximal
\* 4-connected set of points with the point's cell state that contains the point
C15_ConnectedComponent ==
    /\ \A p \in OnBoard(Board) :
          LET cc == connected_component(Board, p)
          IN /\ ~cc.raised
             /\ DOMAIN cc.marker = DOMAIN Board.board
             /\ where1d(cc.marker) = Block(Board, p)
    /\ op = "connected_component"
          => \E p \in OnBoard(Board) : ret[p] /\ where1d(ret) = Block(Board, p)

\* C15 witness: connected_component has just marked a block of three or more stones
\* that bends, on a board with another stone of the same colour outside the block
C15_Witness ==
    /\ op = "connected_component"
    /\ \E p \in Stones(Board) :
          /\ ret[p]
          /\ Cardinality(where1d(ret)) >= 3
          /\ \E q \in where1d(ret) : q - p \notin {-2, -1, 0, 1, 2}
          /\ \E q \in where1d(ret) : q - p \in {-1, 1}
          /\ \E q \in Stones(Board) : Board.board[q] = Board.board[p] /\ ~ret[q]

\* C16: _liberty_point(p, color) called on a stone p of color returns the number of
\* distinct EMPTY points adjacent to p's block, and with it the liberty point when that
\* number is one and NO_POINT otherwise
C16_LibertyPoint ==
    /\ \A p \in Stones(Board) :
          LET lp == _liberty_point(Board, p, Board.board[p])
              libs == Liberties(Board, p)
          IN /\ ~lp.raised
             /\ lp.ret[1] = Cardinality(libs)
             /\ IF Cardinality(libs) = 1 THEN libs = {lp.ret[2]} ELSE lp.ret[2] = NO_POINT
    /\ (op = "_liberty_point" /\ ~raised)
          => \E p \in Stones(Board) :
                /\ ret[1] = Cardinality(Liberties(Board, p))
                /\ ret[2] = NO_POINT \/ Liberties(Board, p) = {ret[2]}

\* C16 witness: _liberty_point has just returned a count of one with the liberty point,
\* which touches two or more stones of the block it is the only liberty of
C16_Witness ==
    /\ op = "_liberty_point" /\ ~raised /\ line = 311
    /\ ret[1] = 1
    /\ \E p \in Stones(Board) :
          /\ Liberties(Board, p) = {ret[2]}
          /\ Cardinality(Adjacent(Board, ret[2]) \cap Block(Board, p)) >= 2

\* C17: get_block_liberty(p, color) called on a stone p of color returns the number of
\* liberties of p's block and a collection of points that holds exactly the stones of
\* p's block
C17_BlockLiberty ==
    \A p \in Stones(Board) :
        /\ ~get_block_liberty(Board, p, Board.board[p]).raised
        /\ get_block_liberty(Board, p, Board.board[p]).ret[1] = Cardinality(Liberties(Board, p))
        /\ Range(get_block_liberty(Board, p, Board.board[p]).ret[2]) = Block(Board, p)

-----------------------------------------------------------------------------
(* Invariants of the position and soundness of the cache (Spec)            *)

\* C18: in every state between operations, after any sequence of play_move and
\* is_legal calls from the empty board, every block of stones has a liberty
C18_NoDeadStones == NoDeadStones(Board)

\* C18 witness: after a successful play_move, a block of two or more stones is down to
\* one liberty and one of its stones has no EMPTY neighbour
C18_Witness ==
    /\ op = "play_move" /\ ret = TRUE
    /\ \E p \in Stones(Board) :
          /\ Cardinality(Liberties(Board, p)) = 1
          /\ Cardinality(Block(Board, p)) >= 2
          /\ \A n \in Adjacent(Board, p) : Board.board[n] # EMPTY

\* the boards _fast_liberty_check is called on when color is placed on the EMPTY point
\* p: in play_move, the board with the stone placed and the captures of the first k
\* neighbours processed; in is_legal, the board with the stone provisionally placed
\* and the first k opponent neighbours tested
BoardsDuringPlacement(self, p, color) ==
    {play_move_captures([self EXCEPT !.board[p] = color],
                        SubSeq(neighbors(self, p), 1, k), 1, opponent(color), <<>>).self :
        k \in 0..Len(neighbors(self, p))}
    \cup
    {detect_captures_loop([self EXCEPT !.board[p] = color],
                          SubSeq(neighbors_of_color(self, p, opponent(color)), 1, k), 1).self :
        k \in 0..Len(neighbors_of_color(self, p, opponent(color)))}

\* a cached witness that is EMPTY is a liberty of the point's block, so that
\* _fast_liberty_check is True only for stones whose block has a liberty
CacheSound(self) ==
    \A p \in Stones(self) :
        /\ (self.liberty_of[p] # NO_POINT /\ self.board[self.liberty_of[p]] = EMPTY)
              => self.liberty_of[p] \in Liberties(self, p)
        /\ _fast_liberty_check(self, p) => Liberties(self, p) # {}

-----------------------------------------------------------------------------
(* is_legal and play_move agree                                            *)

\* what copy() returns in the current state, as the methods see it
CopyOfBoard ==
    With(copy(heap, boards[1]),
         LAMBDA c : [c.obj EXCEPT !.board = c.heap[c.obj.board],
                                  !.liberty_of = c.heap[c.obj.liberty_of]])

\* C20: in every reachable state, on the board and on the board copy() returns (cache
\* reset), for every interior point or PASS and either colour, is_legal returns True
\* exactly when play_move called in the same state returns True
C20_LegalIffPlayable ==
    \A b \in {Board, CopyOfBoard} :
       \A p \in OnBoard(b) \cup {PASS}, c \in Colors :
           /\ ~is_legal(b, p, c).raised /\ ~play_move(b, p, c).raised
           /\ is_legal(b, p, c).ret = play_move(b, p, c).ret

\* C20 witness: is_legal has just accepted a placement on a board whose cache holds a stale
\* entry and differs from the copy's, where some placement without a liberty of its
\* own captures
C20_Witness ==
    /\ op = "is_legal" /\ ret = TRUE /\ line = 127
    /\ \E p \in Stones(Board) :
          Board.liberty_of[p] # NO_POINT /\ Board.board[Board.liberty_of[p]] # EMPTY
    /\ CopyOfBoard.liberty_of # Board.liberty_of
    /\ \E p \in OnBoard(Board), c \in Colors :
          /\ NoLibertyBeforeCaptures(Board, p, c)
          /\ DeadOpponents(Board, p, c) # {}
          /\ p # Board.ko_recapture

====
